---- MODULE Spec2Model ----
(***************************************************************************)
(* A model of the nanobot WhatsApp bridge: the Kotaete quiz engine         *)
(* (bridge/src/kotaete.ts), the answer matcher it contains, and the        *)
(* inbound-message router of the WhatsApp client (bridge/src/whatsapp.ts). *)
(*                                                                         *)
(* Text is modelled as a sequence of one-character strings, so that        *)
(* lower-casing, trimming, substring search and the edit distance are      *)
(* computed character by character, as the code computes them.             *)
(***************************************************************************)
EXTENDS Integers, Sequences, FiniteSets, TLC

(***************************************************************************)
(* Text helpers: String.prototype.toLowerCase / trim / includes            *)
(***************************************************************************)
UpperChars == <<"A","B","C","D","E","F","G","H","I","J","K","L","M",
                "N","O","P","Q","R","S","T","U","V","W","X","Y","Z">>
LowerChars == <<"a","b","c","d","e","f","g","h","i","j","k","l","m",
                "n","o","p","q","r","s","t","u","v","w","x","y","z">>

\* The white space String.prototype.trim removes (the part of it the model's
\* alphabet contains).
WhiteSpace == {" "}

ToLowerChar(c) ==
    IF \E i \in 1..Len(UpperChars) : UpperChars[i] = c
    THEN LowerChars[CHOOSE i \in 1..Len(UpperChars) : UpperChars[i] = c]
    ELSE c

ToLowerCase(s) == [i \in 1..Len(s) |-> ToLowerChar(s[i])]

\* s.trim(): drop the leading and the trailing white space.
Trim(s) ==
    LET keep == {i \in 1..Len(s) : s[i] \notin WhiteSpace}
    IN  IF keep = {} THEN <<>>
        ELSE LET lo == CHOOSE i \in keep : \A k \in keep : i <= k
                 hi == CHOOSE i \in keep : \A k \in keep : i >= k
             IN  SubSeq(s, lo, hi)

\* hay.includes(needle): needle occurs in hay as a contiguous substring.
Includes(hay, needle) ==
    \E i \in 0..(Len(hay) - Len(needle)) :
        SubSeq(hay, i + 1, i + Len(needle)) = needle

Min2(a, b) == IF a <= b THEN a ELSE b
Max2(a, b) == IF a >= b THEN a ELSE b

(***************************************************************************)
(* Kotaete.levenshteinDistance: the dp table, filled row by row.  A row is *)
(* a sequence whose element j+1 is dp[i][j].                               *)
(***************************************************************************)
RECURSIVE LevFillRow(_, _, _, _)
LevFillRow(prev, c, str2, acc) ==
    LET j == Len(acc)       \* the next column to fill, 1..n
    IN  IF j > Len(str2) THEN acc
        ELSE LevFillRow(prev, c, str2,
                 Append(acc,
                     IF c = str2[j]
                     THEN prev[j]                         \* dp[i-1][j-1]
                     ELSE 1 + Min2(prev[j + 1],           \* deletion
                              Min2(acc[j],                \* insertion
                                   prev[j]))))            \* substitution

RECURSIVE LevRows(_, _, _, _)
LevRows(str1, str2, i, prev) ==
    IF i > Len(str1) THEN prev[Len(str2) + 1]
    ELSE LET row == LevFillRow(prev, str1[i], str2, <<i>>)
         IN  IF Len(row) = Len(prev)       \* the row is complete before the next one
             THEN LevRows(str1, str2, i + 1, row)
             ELSE -1

levenshteinDistance(str1, str2) ==
    LevRows(str1, str2, 1, [j \in 1..(Len(str2) + 1) |-> j - 1])

\* isCloseMatch taking the length of the correct answer, not the candidate's.
isCloseMatchByCorrectLength(answer1, answer2) ==
    LET distance == levenshteinDistance(answer1, answer2)
    IN  IF Len(answer2) <= 10 /\ distance <= 2 THEN TRUE
        ELSE IF Len(answer2) > 10
             THEN distance <= Max2(3, Len(answer2) \div 10)
             ELSE FALSE

(***************************************************************************)
(* Kotaete.isCloseMatch.  Math.floor(n * 0.1) equals n \div 10 for every   *)
(* length a message can have.                                              *)
(***************************************************************************)
isCloseMatch(answer1, answer2) ==
    LET distance == levenshteinDistance(answer1, answer2)
    IN  IF Len(answer1) <= 10 /\ distance <= 2 THEN TRUE
        ELSE IF Len(answer1) > 10
             THEN distance <= Max2(3, Len(answer1) \div 10)
             ELSE FALSE

(***************************************************************************)
(* The branch of Kotaete.checkAnswer taken for a normalised user answer    *)
(* and the session's stored answer (kotaete.ts lines 108-124).             *)
(***************************************************************************)
MatchBranch(userAnswer, correctAnswer) ==
    IF userAnswer = correctAnswer THEN "exact"
    ELSE IF Includes(userAnswer, correctAnswer) \/ Includes(correctAnswer, userAnswer)
         THEN "partial"
    ELSE IF isCloseMatch(userAnswer, correctAnswer) THEN "close"
    ELSE "none"

(***************************************************************************)
(* Bounds of the model                                                     *)
(***************************************************************************)
MaxTasks == 2      \* async calls that can be in flight at once
MaxTime  == 1      \* last value of the clock, Date.now()
MaxBatch == 2      \* messages in one messages.upsert event
MaxConns == 2      \* connections made to the control channel
MaxInbox == 2      \* messages sent to the connections and not yet read by the clients

\* The records of the calls: those in flight, and one more, since the record
\* of a finished call stays until its outcome has been collected.
TaskIds == 1..(MaxTasks + 1)

(***************************************************************************)
(* Program constants                                                       *)
(***************************************************************************)
CorrectEmoji == "white_check_mark"      \* kotaete.ts line 109
PartialEmoji == "sparkles"              \* kotaete.ts line 117
CloseEmoji   == "mag"                   \* kotaete.ts line 123
CorrectText  == "[white_check_mark] Correct!"          \* kotaete.ts line 110
AlreadyActiveError == "Error: A quiz is already active"  \* kotaete.ts line 58
TransportError     == "Error: send failed"  \* whatever sendMessage/sendReact rejects with

\* kotaete.ts line 62: the text of the question message.
QuizMessage(question) == <<"[memo] Quiz: ", question, "\n\nReply with your answer!">>

NoId == "undefined"     \* an absent replyToMessageId

\* The control channel (server.ts).
ConnIds     == 1..MaxConns
NoToken     == "undefined"    \* no token given to the constructor (line 19)
BridgeToken == "secret"       \* the token the bridge is configured with
WrongToken  == "guess"        \* any other token

\* What a client sends: text that parses as JSON or not, and, when it does,
\* its type and token fields.
NoMessage == [json |-> FALSE, type |-> "-", token |-> "-"]
NotJson   == [json |-> FALSE, type |-> "not json", token |-> "-"]
AuthMessage(tok) == [json |-> TRUE, type |-> "auth", token |-> tok]
Command(type)    == [json |-> TRUE, type |-> type, token |-> "-"]
CommandTypes     == {"send", "quiz_start", "quiz_end", "quiz_status"}
ClientMessages ==
    {NotJson, AuthMessage(BridgeToken), AuthMessage(WrongToken)}
        \cup {Command(type) : type \in CommandTypes}

\* A connection: the state of its socket, the message listener registered on
\* it, whether the auth timer is pending, the first message it delivered, the
\* last command handled for it, and what was sent to it and is not yet read.
NoSocket == [readyState |-> "NONE", listener |-> "none", timeout |-> FALSE,
             first |-> NoMessage, handled |-> "none", received |-> <<>>]

(***************************************************************************)
(* QuizState (kotaete.ts lines 15-22); NoQuiz stands for null.             *)
(***************************************************************************)
NoQuiz == [active |-> FALSE, question |-> "", correctAnswer |-> <<>>,
           startTime |-> 0, chatId |-> <<>>, messageId |-> NoId]

\* startQuiz storing the answer as given, neither trimmed nor lower-cased.
NewQuizAnswerAsGiven(chatId, question, correctAnswer, replyToMessageId, time) ==
    [active        |-> TRUE,
     question      |-> question,
     correctAnswer |-> correctAnswer,
     startTime     |-> time,
     chatId        |-> chatId,
     messageId     |-> replyToMessageId]

\* kotaete.ts lines 65-72: the session startQuiz creates.
NewQuiz(chatId, question, correctAnswer, replyToMessageId, time) ==
    [active        |-> TRUE,
     question      |-> question,
     correctAnswer |-> Trim(ToLowerCase(correctAnswer)),
     startTime     |-> time,
     chatId        |-> chatId,
     messageId     |-> replyToMessageId]

(***************************************************************************)
(* State                                                                   *)
(***************************************************************************)
VARIABLES
    currentQuiz,   \* Kotaete.currentQuiz: the session, or NoQuiz
    now,           \* the clock Date.now() reads
    tasks,         \* the async calls in flight, and the finished ones not yet collected
    options,       \* WhatsAppClientOptions: which optional handlers are set
    userJid,       \* sock.user.id, the bot's own address
    lidMapping,    \* sock.signalRepository.lidMapping: the LID -> PN directory
    env,           \* what the outside world sends: the inputs and their discipline
    process,       \* the bridge process: "running", or "crashed"
    token,         \* BridgeServer.token: the configured bridge token, or NoToken
    clients,       \* BridgeServer.clients: the connections set up as clients
    sockets,       \* the control-channel connections, as the server holds them
    candidate,     \* matcher check: the message text classified
    correct,       \* matcher check: the answer the quiz was started with
    outcome        \* matcher check: what checkAnswer did with them

vars == <<currentQuiz, now, tasks, options, userJid, lidMapping, env, process,
          token, clients, sockets, candidate, correct, outcome>>

engineVars == <<currentQuiz, now, tasks>>
clientVars == <<options, userJid, lidMapping>>
serverVars == <<token, clients, sockets>>
matchVars  == <<candidate, correct, outcome>>

FreeTask == [op |-> "free", pc |-> "free", args |-> <<>>, loc |-> <<>>,
             pre |-> NoQuiz, branch |-> "-", trace |-> <<>>, result |-> "-"]

IsFree(t)  == tasks[t].pc = "free"
IsDone(t)  == tasks[t].pc = "done"
FreeIds    == {t \in TaskIds : IsFree(t)}
LowestFree == CHOOSE t \in FreeIds : \A u \in FreeIds : t <= u

\* The calls in flight: started, and not finished.
InFlight(ts) == {t \in TaskIds : ts[t].pc \notin {"free", "done"}}

\* The process has not been terminated.
Running == process = "running"

\* Nothing is being handled.
Quiescent == \A t \in TaskIds : IsFree(t)

\* The outside world issues a command or delivers an event: at any time once
\* the outcomes of the finished calls have been collected and fewer than
\* MaxTasks calls are in flight, or, when it works serially, only once the
\* previous one has been handled.
CanAccept(t) ==
    /\ Running
    /\ FreeIds # {}
    /\ t = LowestFree
    /\ Cardinality(InFlight(tasks)) < MaxTasks
    /\ \A u \in TaskIds : ~IsDone(u)
    /\ env.serial => Quiescent

\* When the outside world follows a script, the next command or event is the
\* next entry of the script, and nothing comes after its last entry.
Allowed(kind, args) ==
    env.scripted =>
        /\ env.script # <<>>
        /\ env.script[1].kind = kind
        /\ env.script[1].args = args

\* env.failures: whether a send of the transport can fail.

NextEnv == IF env.scripted THEN [env EXCEPT !.script = Tail(@)] ELSE env

\* endQuiz firing its notification without clearing the session.
endQuizKeepsSession(quiz, reason) ==
    IF quiz = NoQuiz
    THEN [quiz |-> quiz, fired |-> <<>>]
    ELSE [quiz |-> quiz, fired |-> << <<"onQuizEnd", reason>> >>]

\* endQuiz without its early return: the notification fires when idle too.
endQuizAlwaysFires(quiz, reason) ==
    [quiz |-> NoQuiz, fired |-> << <<"onQuizEnd", reason>> >>]

(***************************************************************************)
(* Kotaete.endQuiz (kotaete.ts lines 80-86): the session afterwards and    *)
(* the notifications fired.                                                *)
(***************************************************************************)
endQuiz(quiz, reason) ==
    IF quiz = NoQuiz
    THEN [quiz |-> quiz, fired |-> <<>>]
    ELSE [quiz |-> NoQuiz, fired |-> << <<"onQuizEnd", reason>> >>]

\* getQuiz that reports no session at all.
getQuizAlwaysAbsent(quiz) == NoQuiz

\* Kotaete.getQuiz and Kotaete.isQuizActive (kotaete.ts lines 130-141).
getQuiz(quiz) == IF quiz # NoQuiz THEN [f \in DOMAIN quiz |-> quiz[f]] ELSE NoQuiz
isQuizActive(quiz) == quiz # NoQuiz

(***************************************************************************)
(* Kotaete.startQuiz (kotaete.ts lines 51-75), called by                   *)
(* BridgeServer.handleCommand for a quiz_start command (lines 273-285).    *)
(* The call runs up to the await of sendMessage; StartQuizResume is the    *)
(* rest, run when the send has settled.                                    *)
(***************************************************************************)
\* startQuiz without its precondition check.
StartQuizNeverRejects(quiz) == FALSE

\* The precondition check with a lock: a call is rejected too while another
\* call is sending its question.
StartQuizRejectsWhilePending(quiz) ==
    \/ quiz # NoQuiz
    \/ \E u \in TaskIds : tasks[u].op = "startQuiz" /\ tasks[u].pc = "sendMessage"

\* kotaete.ts line 57: the precondition check.
StartQuizRejects(quiz) == quiz # NoQuiz

WsSend(payload) == <<"ws.send", payload>>

CmdQuizStart(t, chatId, question, answer, replyToMessageId) ==
    /\ CanAccept(t)
    /\ Allowed("quiz_start", [chatId |-> chatId, question |-> question,
                             answer |-> answer, replyToMessageId |-> replyToMessageId])
    /\ tasks' = [tasks EXCEPT ![t] =
         IF StartQuizRejects(currentQuiz)
         THEN [FreeTask EXCEPT
                 !.op = "startQuiz", !.pc = "done",
                 !.args = [chatId |-> chatId, question |-> question,
                           answer |-> answer, replyToMessageId |-> replyToMessageId],
                 !.pre = currentQuiz,
                 !.result = AlreadyActiveError,
                 !.trace = << WsSend([type |-> "error", error |-> AlreadyActiveError]) >>]
         ELSE [FreeTask EXCEPT
                 !.op = "startQuiz", !.pc = "sendMessage",
                 !.args = [chatId |-> chatId, question |-> question,
                           answer |-> answer, replyToMessageId |-> replyToMessageId],
                 !.pre = currentQuiz]]
    /\ UNCHANGED <<currentQuiz, now, clientVars, serverVars, process, matchVars>>
    /\ env' = NextEnv

\* startQuiz creating the session before it awaits the send: a failed send
\* leaves the session behind.
StartQuizResumeCommitsFirst(t, ok) ==
    /\ Running
    /\ tasks[t].op = "startQuiz"
    /\ tasks[t].pc = "sendMessage"
    /\ ok \/ env.failures
    /\ LET a == tasks[t].args
           quiz == NewQuiz(a.chatId, a.question, a.answer, a.replyToMessageId, now)
       IN  /\ currentQuiz' = quiz
           /\ IF ok
              THEN tasks' = [tasks EXCEPT ![t].pc = "done", ![t].result = "ok",
                       ![t].trace = << <<"sendMessage", a.chatId, QuizMessage(a.question)>>,
                                       <<"onQuizStart", quiz>>,
                                       WsSend([type |-> "quiz_started", success |-> TRUE]) >>]
              ELSE tasks' = [tasks EXCEPT ![t].pc = "done", ![t].result = TransportError,
                       ![t].trace = << WsSend([type |-> "error", error |-> TransportError]) >>]
    /\ UNCHANGED <<now, clientVars, serverVars, env, process, matchVars>>

StartQuizResume(t, ok) ==
    /\ Running
    /\ tasks[t].op = "startQuiz"
    /\ tasks[t].pc = "sendMessage"
    /\ ok \/ env.failures
    /\ LET a == tasks[t].args
           quiz == NewQuiz(a.chatId, a.question, a.answer, a.replyToMessageId, now)
       IN  IF ok
           THEN /\ currentQuiz' = quiz
                /\ tasks' = [tasks EXCEPT ![t].pc = "done", ![t].result = "ok",
                       ![t].trace = << <<"sendMessage", a.chatId, QuizMessage(a.question)>>,
                                       <<"onQuizStart", quiz>>,
                                       WsSend([type |-> "quiz_started", success |-> TRUE]) >>]
           ELSE /\ currentQuiz' = currentQuiz
                /\ tasks' = [tasks EXCEPT ![t].pc = "done", ![t].result = TransportError,
                       ![t].trace = << WsSend([type |-> "error", error |-> TransportError]) >>]
    /\ UNCHANGED <<now, clientVars, serverVars, env, process, matchVars>>

(***************************************************************************)
(* handleCommand, quiz_end (kotaete.ts lines 287-290): endQuiz has no      *)
(* await, so the command is handled in one step.                           *)
(***************************************************************************)
CmdQuizEnd(t) ==
    /\ CanAccept(t)
    /\ Allowed("quiz_end", <<>>)
    /\ LET r == endQuiz(currentQuiz, "cancelled")
       IN  /\ currentQuiz' = r.quiz
           /\ tasks' = [tasks EXCEPT ![t] = [FreeTask EXCEPT
                  !.op = "endQuiz", !.pc = "done",
                  !.args = [reason |-> "cancelled"],
                  !.pre = currentQuiz,
                  !.result = "ok",
                  !.trace = r.fired \o
                      << WsSend([type |-> "quiz_ended", reason |-> "cancelled"]) >>]]
    /\ UNCHANGED <<now, clientVars, serverVars, process, matchVars>>
    /\ env' = NextEnv

\* handleCommand, quiz_status (kotaete.ts lines 292-299).
CmdQuizStatus(t) ==
    /\ CanAccept(t)
    /\ Allowed("quiz_status", <<>>)
    /\ tasks' = [tasks EXCEPT ![t] = [FreeTask EXCEPT
           !.op = "getQuiz", !.pc = "done",
           !.pre = currentQuiz,
           !.result = "ok",
           !.trace = << WsSend([type |-> "quiz_status",
                                active |-> isQuizActive(currentQuiz),
                                quiz |-> getQuiz(currentQuiz)]) >>]]
    /\ UNCHANGED <<currentQuiz, now, clientVars, serverVars, process, matchVars>>
    /\ env' = NextEnv

(***************************************************************************)
(* Kotaete.checkAnswer (kotaete.ts lines 94-125)                           *)
(***************************************************************************)
\* checkAnswer testing only for an active quiz, not for its chat.
CheckAnswerIgnoresIdleOnly(quiz, chatId) == quiz = NoQuiz

\* kotaete.ts line 100: no active quiz, or a message of another chat.
CheckAnswerIgnores(quiz, chatId) == quiz = NoQuiz \/ quiz.chatId # chatId

\* The reactions of the partial and the close branch exchanged.
ReactionForSwapped(branch) ==
    CASE branch = "exact"   -> CorrectEmoji
      [] branch = "partial" -> CloseEmoji
      [] branch = "close"   -> PartialEmoji

\* The reaction each branch sends (kotaete.ts lines 109, 117, 123).
ReactionFor(branch) ==
    CASE branch = "exact"   -> CorrectEmoji
      [] branch = "partial" -> PartialEmoji
      [] branch = "close"   -> CloseEmoji

\* The call, up to its first await or to its return.
checkAnswer(quiz, chatId, messageContent, messageKey) ==
    LET base == [FreeTask EXCEPT
                   !.op = "checkAnswer",
                   !.args = [chatId |-> chatId, messageContent |-> messageContent,
                             messageKey |-> messageKey],
                   !.pre = quiz]
    IN  IF CheckAnswerIgnores(quiz, chatId)
        THEN [base EXCEPT !.pc = "done", !.branch = "ignored", !.result = "ok"]
        ELSE LET branch == MatchBranch(Trim(ToLowerCase(messageContent)),
                                       quiz.correctAnswer)
             IN  IF branch = "none"
                 THEN [base EXCEPT !.pc = "done", !.branch = branch, !.result = "ok"]
                 ELSE [base EXCEPT !.pc = "sendReact", !.branch = branch]

\* checkAnswer is reached through handleIgnoredGroupMessage (kotaete.ts lines
\* 308-321), which awaits it without a try, and that is called by the upsert
\* handler (whatsapp.ts line 121) through the option set in server.ts line 33,
\* which neither awaits nor catches the promise it gets back.  A rejection of
\* checkAnswer therefore rejects a promise nobody handles: the runtime reports
\* an unhandled rejection.
IgnoredHandlerRejects(error) == << <<"unhandledRejection", error>> >>

\* What the runtime does with an unhandled rejection: it goes on after a
\* warning, or it terminates the process, depending on how it was started.
UnhandledRejectionOutcomes == {"running", "crashed"}

\* The rest of the call, run when the send it awaits has settled.
CheckAnswerResume(t, ok) ==
    /\ Running
    /\ tasks[t].op = "checkAnswer"
    /\ tasks[t].pc \in {"sendReact", "sendMessage"}
    /\ ok \/ env.failures
    /\ LET a == tasks[t].args
           k == tasks[t]
       IN  IF ~ok
           THEN /\ tasks' = [tasks EXCEPT ![t].pc = "done", ![t].result = TransportError,
                       ![t].trace = k.trace \o IgnoredHandlerRejects(TransportError)]
                /\ currentQuiz' = currentQuiz
                /\ process' \in UnhandledRejectionOutcomes
           ELSE IF k.pc = "sendReact"
           THEN /\ tasks' = [tasks EXCEPT
                       ![t].trace = Append(k.trace,
                           <<"sendReact", a.chatId, ReactionFor(k.branch), a.messageKey>>),
                       ![t].pc = IF k.branch = "exact" THEN "sendMessage" ELSE "done",
                       ![t].result = IF k.branch = "exact" THEN k.result ELSE "ok"]
                /\ currentQuiz' = currentQuiz
                /\ process' = process
           ELSE LET r == endQuiz(currentQuiz, "answered")
                IN  /\ tasks' = [tasks EXCEPT
                           ![t].trace = Append(k.trace,
                               <<"sendMessage", a.chatId, CorrectText>>) \o r.fired,
                           ![t].pc = "done",
                           ![t].result = "ok"]
                    /\ currentQuiz' = r.quiz
                    /\ process' = process
    /\ UNCHANGED <<now, clientVars, serverVars, env, matchVars>>

\* The caller has taken the outcome of a finished call.
Return(t) ==
    /\ Running
    /\ IsDone(t)
    /\ tasks' = [tasks EXCEPT ![t] = FreeTask]
    /\ UNCHANGED <<currentQuiz, now, clientVars, serverVars, env, process, matchVars>>

\* Time passes.
Tick ==
    /\ Running
    /\ now < MaxTime
    /\ now' = now + 1
    /\ UNCHANGED <<currentQuiz, tasks, clientVars, serverVars, env, process, matchVars>>

(***************************************************************************)
(* WhatsApp addresses.  A JID is a sequence of tokens: single digits, ":"  *)
(* and the server suffixes, so that the suffix tests and the replacements  *)
(* of the client work on its text.                                         *)
(***************************************************************************)
Digits == {"0","1","2","3","4","5","6","7","8","9"}

PnServer     == "@s.whatsapp.net"
LidServer    == "@lid"
GroupServer  == "@g.us"
StatusJid    == <<"status", "@broadcast">>       \* 'status@broadcast'

EndsWith(jid, suffix) == Len(jid) >= 1 /\ jid[Len(jid)] = suffix

\* The replacement with \d in place of \d+: only a one-digit device is dropped.
StripDeviceSingleDigit(jid) ==
    LET n == Len(jid)
    IN  IF n >= 3 /\ jid[n] = PnServer /\ jid[n - 1] \in Digits /\ jid[n - 2] = ":"
        THEN SubSeq(jid, 1, n - 3)
        ELSE jid

\* jid.replace(/:\d+@s\.whatsapp\.net$/, ''): drop a trailing device segment.
StripDevice(jid) ==
    LET n == Len(jid)
        starts == {p \in 1..n : /\ jid[p] = ":"
                                /\ p + 1 <= n - 1
                                /\ \A q \in (p + 1)..(n - 1) : jid[q] \in Digits
                                /\ jid[n] = PnServer}
    IN  IF starts = {} THEN jid
        ELSE SubSeq(jid, 1, (CHOOSE p \in starts : \A q \in starts : p <= q) - 1)

\* jid.replace('@s.whatsapp.net', ''): drop the first occurrence of the suffix.
StripPnServer(jid) ==
    LET at == {p \in 1..Len(jid) : jid[p] = PnServer}
    IN  IF at = {} THEN jid
        ELSE LET p == CHOOSE x \in at : \A y \in at : x <= y
             IN  SubSeq(jid, 1, p - 1) \o SubSeq(jid, p + 1, Len(jid))

NoPn == <<>>      \* getPNForLID found no mapping

\* A directory lookup that never finds a mapping.
getPNForLIDNeverFound(jid) == NoPn

\* lidMapping.getPNForLID(jid)
getPNForLID(jid) ==
    IF jid \in DOMAIN lidMapping.map THEN lidMapping.map[jid] ELSE NoPn

\* WhatsAppClient.resolveAndSanitizePhoneNumber (whatsapp.ts lines 185-192)
resolveAndSanitizePhoneNumber(jid) ==
    LET pn == IF EndsWith(jid, LidServer) /\ lidMapping.present
              THEN getPNForLID(jid) ELSE NoPn
        resolved == IF pn # NoPn THEN pn ELSE jid
    IN  StripPnServer(StripDevice(resolved))

\* The lookup made without the test for the linked-identity form.
LookupsOfAnyAddress(jid) ==
    IF lidMapping.present THEN << <<"getPNForLID", jid>> >> ELSE <<>>

\* The directory lookups one resolution performs.
LookupsOf(jid) ==
    IF EndsWith(jid, LidServer) /\ lidMapping.present
    THEN << <<"getPNForLID", jid>> >> ELSE <<>>

(***************************************************************************)
(* Messages.  body.kind is the one field of msg.message that is set.       *)
(***************************************************************************)
NoContent == <<>>      \* null; the empty text is treated the same everywhere

\* WhatsAppClient.extractMessageContent (whatsapp.ts lines 147-182)
ClientExtractMessageContent(msg) ==
    LET b == msg.message
    IN  CASE b.kind = "conversation" /\ b.text # <<>> -> b.text
          [] b.kind = "extendedText" /\ b.text # <<>> -> b.text
          [] b.kind = "image"    /\ b.text # <<>> -> <<"[Image] ">> \o b.text
          [] b.kind = "video"    /\ b.text # <<>> -> <<"[Video] ">> \o b.text
          [] b.kind = "document" /\ b.text # <<>> -> <<"[Document] ">> \o b.text
          [] b.kind = "audio" -> <<"[Voice Message]">>
          [] OTHER -> NoContent

\* Kotaete.extractMessageContent (kotaete.ts lines 146-175)
KotaeteExtractMessageContent(message) ==
    CASE message.kind \in {"conversation", "extendedText", "image", "video", "document"}
             /\ message.text # <<>> -> message.text
      [] OTHER -> NoContent

\* whatsapp.ts line 114: msg.message?.extendedTextMessage?.contextInfo?.mentionedJid || []
MentionsOf(msg) ==
    IF msg.message.kind = "extendedText" THEN msg.message.mentions ELSE <<>>

\* whatsapp.ts line 109
IsGroup(msg) == EndsWith(msg.key.remoteJid, GroupServer)

\* WhatsAppClient.createInboundMessage (whatsapp.ts lines 136-145)
createInboundMessage(msg, content, isGroup) ==
    [id |-> msg.key.id, sender |-> msg.key.remoteJid, pn |-> msg.key.remoteJidAlt,
     content |-> content, timestamp |-> msg.messageTimestamp, isGroup |-> isGroup]

\* whatsapp.ts lines 121-125: the RawMessage handed to the ignored-message handler
RawMessage(msg) ==
    [message |-> msg.message, key |-> msg.key, messageTimestamp |-> msg.messageTimestamp]

\* whatsapp.ts lines 101-107: a message the loop skips before routing it.
Skipped(msg) ==
    \/ msg.key.fromMe
    \/ msg.key.remoteJid = StatusJid
    \/ ClientExtractMessageContent(msg) = NoContent

\* What arrives, before it is given its id and its time.
Body(kind, text, mentions) == [kind |-> kind, text |-> text, mentions |-> mentions]

Template(remoteJid, fromMe, body) ==
    [remoteJid |-> remoteJid, fromMe |-> fromMe, message |-> body]

\* The templates a batch of messages was made from.
TemplatesOf(messages) ==
    [i \in 1..Len(messages) |->
        Template(messages[i].key.remoteJid, messages[i].key.fromMe, messages[i].message)]

(***************************************************************************)
(* The messages.upsert handler (whatsapp.ts lines 96-132).  The handler is *)
(* async: it runs until it awaits a resolution of isUserMentioned          *)
(* (lines 195-202) and goes on when that resolution has settled.           *)
(***************************************************************************)
\* The calls one resolveAndSanitizePhoneNumber(jid) makes, as trace events.
ResolveCall(jid) == << <<"resolve", jid>> >> \o LookupsOf(jid)

\* The loop from message i on, up to the first group message (whose mention
\* check awaits) or to the end of the batch.
RECURSIVE SyncLoop(_, _, _)
SyncLoop(messages, i, trace) ==
    IF i > Len(messages)
    THEN [pc |-> "done", i |-> i, trace |-> trace]
    ELSE LET msg == messages[i]
         IN  IF Skipped(msg) THEN SyncLoop(messages, i + 1, trace)
             ELSE IF IsGroup(msg)
             THEN [pc |-> "resolveUser", i |-> i,
                   trace |-> trace \o ResolveCall(userJid)]
             ELSE SyncLoop(messages, i + 1,
                      Append(trace, <<"onMessage",
                          createInboundMessage(msg, ClientExtractMessageContent(msg), FALSE)>>))

Upsert(t, type, messages) ==
    /\ CanAccept(t)
    /\ Allowed("upsert", [type |-> type, templates |-> TemplatesOf(messages)])
    /\ LET r == IF type # "notify"
                THEN [pc |-> "done", i |-> 1, trace |-> <<>>]
                ELSE SyncLoop(messages, 1, <<>>)
       IN  tasks' = [tasks EXCEPT ![t] = [FreeTask EXCEPT
               !.op = "upsert", !.pc = r.pc,
               !.args = [type |-> type, messages |-> messages],
               !.loc = [i |-> r.i, k |-> 0, userPn |-> <<>>],
               !.pre = currentQuiz,
               !.result = IF r.pc = "done" THEN "ok" ELSE "-",
               !.trace = r.trace]]
    /\ UNCHANGED <<currentQuiz, now, clientVars, serverVars, process, matchVars>>
    /\ env' = NextEnv

\* The router without its else branch: an unmentioned group message is dropped.
RouteGroupDropsUnmentioned(msg, mentioned) ==
    IF mentioned
    THEN << <<"onMessage",
              createInboundMessage(msg, ClientExtractMessageContent(msg), TRUE)>> >>
    ELSE <<>>

\* whatsapp.ts lines 116-126: what the handler does with group message msg once
\* isUserMentioned has returned: the handler invoked, as trace events.
RouteGroup(msg, mentioned) ==
    IF mentioned
    THEN << <<"onMessage",
              createInboundMessage(msg, ClientExtractMessageContent(msg), TRUE)>> >>
    ELSE IF options.onIgnoredGroupMessage
    THEN << <<"onIgnoredGroupMessage", RawMessage(msg)>> >>
    ELSE <<>>

\* BridgeServer.handleIgnoredGroupMessage (kotaete.ts lines 308-321): whether
\* the message gets to checkAnswer.
ChecksAnswer(msg, mentioned) ==
    /\ ~mentioned
    /\ options.onIgnoredGroupMessage
    /\ KotaeteExtractMessageContent(msg.message) # NoContent

\* The mention check of message loc.i has returned `mentioned`: route the
\* message, start checkAnswer in a free task u if it is an ignored one with
\* content, and go on with the loop.
UpsertRoute(t, u, mentioned) ==
    LET k   == tasks[t]
        msg == k.args.messages[k.loc.i]
        r   == SyncLoop(k.args.messages, k.loc.i + 1,
                        k.trace \o RouteGroup(msg, mentioned))
        self == [k EXCEPT !.pc = r.pc, !.loc.i = r.i, !.loc.k = 0, !.trace = r.trace,
                          !.result = IF r.pc = "done" THEN "ok" ELSE "-"]
    IN  IF ChecksAnswer(msg, mentioned)
        THEN /\ u \in FreeIds
             /\ u = LowestFree
             /\ tasks' = [tasks EXCEPT
                    ![t] = self,
                    ![u] = checkAnswer(currentQuiz, msg.key.remoteJid,
                               KotaeteExtractMessageContent(msg.message), msg.key)]
             /\ Cardinality(InFlight(tasks')) <= MaxTasks
        ELSE /\ u = t
             /\ tasks' = [tasks EXCEPT ![t] = self]

\* The loop of isUserMentioned that goes on after a match and returns what the
\* comparison of the last entry gave.
isUserMentionedStepLastEntryOnly(mentions, j, userPn) ==
    IF j < Len(mentions) THEN "next"
    ELSE IF resolveAndSanitizePhoneNumber(mentions[j]) = userPn THEN "true"
    ELSE "false"

\* isUserMentioned (whatsapp.ts lines 197-201), once the resolution of entry j
\* has settled: return true on a match, else go on with the next entry, and
\* return false after the last one.
isUserMentionedStep(mentions, j, userPn) ==
    IF resolveAndSanitizePhoneNumber(mentions[j]) = userPn THEN "true"
    ELSE IF j < Len(mentions) THEN "next"
    ELSE "false"

UpsertResume(t, u) ==
    /\ Running
    /\ tasks[t].op = "upsert"
    /\ tasks[t].pc \in {"resolveUser", "resolveMention"}
    /\ LET k        == tasks[t]
           msg      == k.args.messages[k.loc.i]
           mentions == MentionsOf(msg)
       IN  IF k.pc = "resolveUser"
           THEN IF mentions = <<>>
                THEN UpsertRoute(t, u, FALSE)
                ELSE /\ u = t
                     /\ tasks' = [tasks EXCEPT
                            ![t].pc = "resolveMention",
                            ![t].loc = [i |-> k.loc.i, k |-> 1,
                                        userPn |-> resolveAndSanitizePhoneNumber(userJid)],
                            ![t].trace = k.trace \o ResolveCall(mentions[1])]
           ELSE LET step == isUserMentionedStep(mentions, k.loc.k, k.loc.userPn)
                IN  IF step = "next"
                    THEN /\ u = t
                         /\ tasks' = [tasks EXCEPT
                                ![t].loc.k = k.loc.k + 1,
                                ![t].trace = k.trace \o ResolveCall(mentions[k.loc.k + 1])]
                    ELSE UpsertRoute(t, u, step = "true")
    /\ UNCHANGED <<currentQuiz, now, clientVars, serverVars, env, process, matchVars>>

(***************************************************************************)
(* The inputs the outside world draws from                                 *)
(***************************************************************************)
G1 == <<"1", "@g.us">>
G2 == <<"2", "@g.us">>
BotPn     == <<"5", "@s.whatsapp.net">>
BotDevice == <<"5", ":", "1", "@s.whatsapp.net">>
BotLid    == <<"9", "@lid">>
OtherPn   == <<"7", "@s.whatsapp.net">>
OtherLid  == <<"8", "@lid">>

Txt4            == <<"4">>
Txt5            == <<"5">>
TxtTheAnswerIs4 == <<"T","h","e"," ","a","n","s","w","e","r"," ","i","s"," ","4">>
TxtFour         == <<"F","o","u","r">>
TxtParis        == <<"P","a","r","i","s">>
TxtParisPadded  == <<" ","P","a","r","i","s"," ">>
TxtParisShout   == <<"P","A","R","I","S"," ">>
TxtPariss       == <<"P","a","r","i","s","s">>
TxtPari         == <<"P","a","r","i">>
TxtParos        == <<"P","a","r","o","s">>
TxtLondon       == <<"L","o","n","d","o","n">>

Question1 == "What is 2 + 2?"
Question2 == "What is the capital of France?"

MentionLists == {<<>>, <<BotPn>>, <<OtherPn, BotLid>>, <<OtherPn>>, <<OtherLid, BotDevice>>}

\* The messages that can arrive: the given texts as plain messages of the
\* given groups, and, carrying text c, messages that mention someone, a private
\* message, and the messages the client drops.
GroupTexts(chats, contents) ==
    {Template(g, FALSE, Body("conversation", c, <<>>)) : g \in chats, c \in contents}

OtherMessages(c) ==
    {Template(G1, FALSE, Body("extendedText", c, m)) : m \in MentionLists}
    \cup {Template(OtherPn, FALSE, Body("conversation", c, <<>>)),
          Template(G1, TRUE, Body("conversation", c, <<>>)),
          Template(StatusJid, FALSE, Body("conversation", c, <<>>)),
          Template(G1, FALSE, Body("image", c, <<>>)),
          Template(G1, FALSE, Body("audio", <<>>, <<>>)),
          Template(G1, FALSE, Body("sticker", <<>>, <<>>)),
          Template(G1, FALSE, Body("conversation", <<>>, <<>>))}

ReplyIds == {NoId, "MSG0"}

\* The two quizzes of the documentation, with the answers it tries on them,
\* each command or event handled before the next one arrives.
MathInputs ==
    [serial |-> TRUE, batch |-> 1, scripted |-> FALSE, script |-> <<>>, failures |-> TRUE,
     chats |-> {G1, G2}, questions |-> {Question1, Question2},
     answers |-> {Txt4, Txt5}, replyIds |-> ReplyIds,
     templates |-> GroupTexts({G1, G2}, {Txt4, TxtTheAnswerIs4, TxtFour})
                   \cup OtherMessages(Txt4)]

ParisInputs ==
    [serial |-> TRUE, batch |-> 1, scripted |-> FALSE, script |-> <<>>, failures |-> TRUE,
     chats |-> {G1, G2}, questions |-> {Question2},
     answers |-> {TxtParisPadded}, replyIds |-> ReplyIds,
     templates |-> GroupTexts({G1, G2},
                       {TxtParisShout, TxtPariss, TxtPari, TxtParos, TxtLondon})
                   \cup OtherMessages(TxtParis)]

\* No quiz command at all: batches of messages, one batch handled before the
\* next one arrives.
RouterInputs ==
    [serial |-> TRUE, batch |-> MaxBatch, scripted |-> FALSE, script |-> <<>>, failures |-> TRUE,
     chats |-> {}, questions |-> {}, answers |-> {}, replyIds |-> {},
     templates |-> {Template(G1, FALSE, Body("extendedText", Txt4, <<OtherPn, BotLid>>)),
                    Template(G1, FALSE, Body("extendedText", Txt4, <<OtherPn>>)),
                    Template(G1, FALSE, Body("conversation", Txt4, <<>>)),
                    Template(OtherPn, FALSE, Body("conversation", Txt4, <<>>)),
                    Template(G1, TRUE, Body("conversation", Txt4, <<>>))}]

\* One quiz in one group, with commands and events arriving at any time.
RaceInputs ==
    [serial |-> FALSE, batch |-> 1, scripted |-> FALSE, script |-> <<>>, failures |-> TRUE,
     chats |-> {G1}, questions |-> {Question1},
     answers |-> {Txt4}, replyIds |-> {NoId},
     templates |-> GroupTexts({G1}, {Txt4, TxtTheAnswerIs4})
                   \cup {Template(OtherPn, FALSE, Body("conversation", Txt4, <<>>))}]

MsgIds == <<"A", "B", "C", "D">>

\* The message of template tpl that arrives as the i-th of its batch.
Message(tpl, i) ==
    [key |-> [id |-> MsgIds[i], remoteJid |-> tpl.remoteJid, remoteJidAlt |-> <<>>,
              fromMe |-> tpl.fromMe],
     message |-> tpl.message,
     messageTimestamp |-> now]

Batches(e) ==
    UNION {{[i \in 1..n |-> Message(f[i], i)] : f \in [1..n -> e.templates]} : n \in 1..e.batch}

\* The sequence of the documentation (KOTAETE.md, "Testing Quiz Matching"):
\* a quiz is started, then three answers arrive in its group, in this order,
\* and every send succeeds.
DocAnswer(c) ==
    [kind |-> "upsert",
     args |-> [type |-> "notify",
               templates |-> << Template(G1, FALSE, Body("conversation", c, <<>>)) >>]]

DocInputs ==
    [serial |-> TRUE, batch |-> 1, scripted |-> TRUE, failures |-> FALSE,
     script |-> << [kind |-> "quiz_start",
                    args |-> [chatId |-> G1, question |-> Question1,
                              answer |-> Txt4, replyToMessageId |-> NoId]],
                   DocAnswer(Txt4), DocAnswer(TxtTheAnswerIs4), DocAnswer(TxtFour) >>,
     chats |-> {G1}, questions |-> {Question1},
     answers |-> {Txt4}, replyIds |-> {NoId},
     templates |-> GroupTexts({G1}, {Txt4, TxtTheAnswerIs4, TxtFour})]

(***************************************************************************)
(* Initial states: the bridge has started (BridgeServer.start, server.ts   *)
(* lines 21-41 and kotaete.ts lines 237-243); no quiz is active.           *)
(***************************************************************************)
EngineInit ==
    /\ currentQuiz = NoQuiz
    /\ now = 0
    /\ tasks = [t \in TaskIds |-> FreeTask]
    /\ process = "running"
    /\ token = NoToken
    /\ clients = {}
    /\ sockets = [c \in ConnIds |-> NoSocket]

ClientInit ==
    /\ options = [onIgnoredGroupMessage |-> TRUE]
    /\ userJid \in {BotDevice, BotLid}
    /\ lidMapping \in {[present |-> TRUE,  map |-> [j \in {BotLid} |-> BotPn]],
                       [present |-> TRUE,  map |-> [j \in {} |-> NoPn]],
                       [present |-> FALSE, map |-> [j \in {} |-> NoPn]]}

\* Nothing classified yet.
NoOutcome == [branch |-> "-", reaction |-> "-"]

NoMatch ==
    /\ candidate = <<>>
    /\ correct = <<>>
    /\ outcome = NoOutcome

Init ==
    /\ EngineInit
    /\ ClientInit
    /\ env = RaceInputs
    /\ NoMatch

SeqInit ==
    /\ EngineInit
    /\ ClientInit
    /\ env \in {MathInputs, ParisInputs, DocInputs, RouterInputs}
    /\ NoMatch

Next ==
    \/ \E t \in TaskIds, chatId \in env.chats, question \in env.questions,
          answer \in env.answers, replyToMessageId \in env.replyIds :
          CmdQuizStart(t, chatId, question, answer, replyToMessageId)
    \/ \E t \in TaskIds, ok \in BOOLEAN : StartQuizResume(t, ok)
    \/ \E t \in TaskIds : CmdQuizEnd(t)
    \/ \E t \in TaskIds : CmdQuizStatus(t)
    \/ \E t \in {u \in TaskIds : CanAccept(u)}, type \in {"notify", "append"},
          messages \in Batches(env) :
          Upsert(t, type, messages)
    \/ \E t \in TaskIds, u \in TaskIds : UpsertResume(t, u)
    \/ \E t \in TaskIds, ok \in BOOLEAN : CheckAnswerResume(t, ok)
    \/ \E t \in TaskIds : Return(t)
    \/ Tick

\* The bridge with commands and events arriving at any time.
Spec == Init /\ [][Next]_vars

\* The bridge with each command or event handled before the next one arrives.
SeqSpec == SeqInit /\ [][Next]_vars

(***************************************************************************)
(* Reference definitions the properties are stated with                    *)
(***************************************************************************)
RECURSIVE RefStripLeft(_)
RefStripLeft(s) ==
    IF s # <<>> /\ Head(s) \in WhiteSpace THEN RefStripLeft(Tail(s)) ELSE s

RECURSIVE RefStripRight(_)
RefStripRight(s) ==
    IF s # <<>> /\ s[Len(s)] \in WhiteSpace
    THEN RefStripRight(SubSeq(s, 1, Len(s) - 1)) ELSE s

\* lower(trim(s))
RefNormalize(s) ==
    LET t == RefStripRight(RefStripLeft(s))
    IN  [i \in 1..Len(t) |-> ToLowerChar(t[i])]

\* The positions of the events of one kind in a trace.
EventsOf(trace, kind) == {i \in 1..Len(trace) : trace[i][1] = kind}

StartQuizTasks   == {t \in TaskIds : tasks[t].op = "startQuiz"}
CheckAnswerTasks == {t \in TaskIds : tasks[t].op = "checkAnswer"}
EndQuizTasks     == {t \in TaskIds : tasks[t].op = "endQuiz"}
UpsertTasks      == {t \in TaskIds : tasks[t].op = "upsert"}

(***************************************************************************)
(* C1: startQuiz called while the engine is Idle, with a send that         *)
(* succeeds, sends the question text to chatId, then creates the session   *)
(* (normalizedAnswer = lower(trim(answer)), the given chatId and replyId,  *)
(* Active), then fires exactly one start notification carrying that        *)
(* session; the session does not exist before the send has completed.      *)
(***************************************************************************)
C1_StartQuizOrder ==
    \A t \in StartQuizTasks :
        LET k == tasks[t]
            a == k.args
        IN  k.pre = NoQuiz =>
              /\ k.pc = "sendMessage" => (currentQuiz = NoQuiz /\ k.trace = <<>>)
              /\ (k.pc = "done" /\ k.result = "ok") =>
                   /\ Len(k.trace) >= 2
                   /\ k.trace[1] = <<"sendMessage", a.chatId, QuizMessage(a.question)>>
                   /\ k.trace[2] = <<"onQuizStart", currentQuiz>>
                   /\ EventsOf(k.trace, "onQuizStart") = {2}
                   /\ EventsOf(k.trace, "sendMessage") = {1}
                   /\ currentQuiz.active
                   /\ currentQuiz.question = a.question
                   /\ currentQuiz.correctAnswer = RefNormalize(a.answer)
                   /\ currentQuiz.chatId = a.chatId
                   /\ currentQuiz.messageId = a.replyToMessageId

\* A quiz whose answer needs trimming and lower-casing has been started.
C1_Witness ==
    \E t \in StartQuizTasks :
        /\ tasks[t].pre = NoQuiz
        /\ tasks[t].pc = "done"
        /\ tasks[t].result = "ok"
        /\ tasks[t].args.answer = TxtParisPadded
        /\ tasks[t].args.replyToMessageId # NoId
        /\ currentQuiz.correctAnswer = <<"p","a","r","i","s">>

(***************************************************************************)
(* C2: a startQuiz call made while a session is active fails with the      *)
(* 'quiz already active' error and has no effect: no message is sent, no   *)
(* start notification fires, and every field of the session is unchanged.  *)
(***************************************************************************)
C2_StartWhileActiveRejected ==
    \A t \in StartQuizTasks :
        LET k == tasks[t]
        IN  k.pre # NoQuiz =>
              /\ k.pc = "done"
              /\ k.result = AlreadyActiveError
              /\ EventsOf(k.trace, "sendMessage") = {}
              /\ EventsOf(k.trace, "onQuizStart") = {}
              /\ k.trace = << WsSend([type |-> "error", error |-> AlreadyActiveError]) >>
              /\ currentQuiz = k.pre
              /\ \A f \in {"question", "correctAnswer", "startTime", "chatId", "messageId"} :
                     currentQuiz[f] = k.pre[f]

\* A second quiz_start, with every argument different and at a later time, was
\* rejected.
C2_Witness ==
    \E t \in StartQuizTasks :
        LET k == tasks[t]
        IN  /\ k.pre # NoQuiz
            /\ k.pc = "done"
            /\ k.args.chatId # k.pre.chatId
            /\ k.args.question # k.pre.question
            /\ Trim(ToLowerCase(k.args.answer)) # k.pre.correctAnswer
            /\ k.args.replyToMessageId # k.pre.messageId
            /\ now # k.pre.startTime

(***************************************************************************)
(* The reference classification: the unit-cost Levenshtein distance by its *)
(* textbook recurrence                                                     *)
(*   D(i,0) = i,  D(0,j) = j,                                              *)
(*   D(i,j) = min(D(i-1,j) + 1, D(i,j-1) + 1, D(i-1,j-1) + [a_i # b_j]),   *)
(* computed column by column, and the tiers exact, partial, close, none.   *)
(***************************************************************************)
RECURSIVE RefColumn(_, _, _, _)
RefColumn(left, a, c, acc) ==
    LET i == Len(acc)          \* the next row to fill, 1..Len(a); acc[i] is D(i-1,j)
    IN  IF i > Len(a) THEN acc
        ELSE RefColumn(left, a, c,
                 Append(acc, Min2(left[i + 1] + 1,
                             Min2(acc[i] + 1,
                                  left[i] + (IF a[i] = c THEN 0 ELSE 1)))))

RECURSIVE RefColumns(_, _, _, _)
RefColumns(a, b, j, left) ==
    IF j > Len(b) THEN left[Len(a) + 1]
    ELSE LET column == RefColumn(left, a, b[j], <<j>>)
         IN  IF Len(column) = Len(left)
             THEN RefColumns(a, b, j + 1, column)
             ELSE -1

RefEditDistance(a, b) == RefColumns(a, b, 1, [i \in 1..(Len(a) + 1) |-> i - 1])

\* needle occurs in hay: hay = before \o needle \o after.
RefContains(hay, needle) ==
    \E before \in 0..Len(hay) :
        /\ before + Len(needle) <= Len(hay)
        /\ \A k \in 1..Len(needle) : hay[before + k] = needle[k]

RefClassify(candidateText, correctText) ==
    LET x == RefNormalize(candidateText)
        y == RefNormalize(correctText)
        L == Len(x)
        d == RefEditDistance(x, y)
    IN  IF x = y THEN "exact"
        ELSE IF RefContains(x, y) \/ RefContains(y, x) THEN "partial"
        ELSE IF (L <= 10 /\ d <= 2) \/ (L > 10 /\ d <= Max2(3, L \div 10)) THEN "close"
        ELSE "none"

\* A checkAnswer call made on the chat of the session that was active.
OnSessionChat(k) == k.pre # NoQuiz /\ k.pre.chatId = k.args.chatId

React(k, emoji) == <<"sendReact", k.args.chatId, emoji, k.args.messageKey>>

(***************************************************************************)
(* C3: with a session Active for chat G, checkAnswer(G, content, ref) with *)
(* content whose lower-cased, trimmed form equals the session's answer,    *)
(* and sends that succeed, emits in this order a correct-reaction on ref,  *)
(* a confirmation message to G and an end notification with reason         *)
(* 'answered'; afterwards isQuizActive() is false and getQuiz() is absent. *)
(***************************************************************************)
C3_ExactAnswerEndsQuiz ==
    \A t \in CheckAnswerTasks :
        LET k == tasks[t]
        IN  (OnSessionChat(k) /\ RefNormalize(k.args.messageContent) = k.pre.correctAnswer) =>
              /\ k.pc = "sendReact" => (k.trace = <<>> /\ currentQuiz = k.pre)
              /\ k.pc = "sendMessage" =>
                    (k.trace = << React(k, CorrectEmoji) >> /\ currentQuiz = k.pre)
              /\ (k.pc = "done" /\ k.result = "ok") =>
                    /\ k.trace = << React(k, CorrectEmoji),
                                    <<"sendMessage", k.args.chatId, CorrectText>>,
                                    <<"onQuizEnd", "answered">> >>
                    /\ ~isQuizActive(currentQuiz)
                    /\ getQuiz(currentQuiz) = NoQuiz

\* An answer that matches only after trimming and lower-casing ended the quiz.
C3_Witness ==
    \E t \in CheckAnswerTasks :
        /\ OnSessionChat(tasks[t])
        /\ tasks[t].args.messageContent = TxtParisShout
        /\ tasks[t].pc = "done"
        /\ tasks[t].result = "ok"
        /\ Len(tasks[t].trace) = 3

(***************************************************************************)
(* C4: a checkAnswer call on the session's chat whose classification is    *)
(* partial, close or none leaves the session unchanged and fires no end    *)
(* notification; it sends exactly one partial-reaction for partial,        *)
(* exactly one close-reaction for close, nothing at all for none, and      *)
(* never a text message.                                                   *)
(***************************************************************************)
C4_InexactAnswerKeepsQuiz ==
    \A t \in CheckAnswerTasks :
        LET k == tasks[t]
            c == RefClassify(k.args.messageContent, k.pre.correctAnswer)
        IN  (OnSessionChat(k) /\ c # "exact") =>
              /\ currentQuiz = k.pre
              /\ EventsOf(k.trace, "onQuizEnd") = {}
              /\ EventsOf(k.trace, "sendMessage") = {}
              /\ k.pc # "done" => k.trace = <<>>
              /\ (k.pc = "done" /\ k.result = "ok") =>
                    k.trace = CASE c = "partial" -> << React(k, PartialEmoji) >>
                                [] c = "close"   -> << React(k, CloseEmoji) >>
                                [] c = "none"    -> <<>>
              /\ c = "none" => k.pc = "done"

\* A close answer (one substitution away, not contained) got its reaction.
C4_Witness ==
    \E t \in CheckAnswerTasks :
        /\ OnSessionChat(tasks[t])
        /\ tasks[t].args.messageContent = TxtParos
        /\ tasks[t].pc = "done"
        /\ tasks[t].trace = << React(tasks[t], CloseEmoji) >>

(***************************************************************************)
(* C5: checkAnswer called while the engine is Idle, or with a chatId       *)
(* different from the session's, is a no-op for every content, the correct *)
(* answer included: no reaction, no message, no notification, and the      *)
(* engine state unchanged.                                                 *)
(***************************************************************************)
C5_OtherChatOrIdleIgnored ==
    \A t \in CheckAnswerTasks :
        LET k == tasks[t]
        IN  (k.pre = NoQuiz \/ k.pre.chatId # k.args.chatId) =>
              /\ k.pc = "done"
              /\ k.result = "ok"
              /\ k.trace = <<>>
              /\ currentQuiz = k.pre

\* The correct answer arrived in another group than the quiz's.
C5_Witness ==
    \E t \in CheckAnswerTasks :
        LET k == tasks[t]
        IN  /\ k.pre # NoQuiz
            /\ k.pre.chatId # k.args.chatId
            /\ Trim(ToLowerCase(k.args.messageContent)) = k.pre.correctAnswer
            /\ k.pc = "done"

(***************************************************************************)
(* C6: endQuiz(reason) called in Active clears the session and fires       *)
(* exactly one end notification tagged with that reason; called in Idle it *)
(* changes nothing and fires no notification; so a second endQuiz right    *)
(* after the first leaves the same state and adds no notification.         *)
(***************************************************************************)
EndReasons == {"answered", "timeout", "cancelled"}

C6_EndQuizIdempotent ==
    /\ \A t \in EndQuizTasks :
           LET k == tasks[t]
           IN  /\ currentQuiz = NoQuiz
               /\ k.pre # NoQuiz =>
                     /\ EventsOf(k.trace, "onQuizEnd") = {1}
                     /\ k.trace[1] = <<"onQuizEnd", k.args.reason>>
               /\ k.pre = NoQuiz => EventsOf(k.trace, "onQuizEnd") = {}
    /\ \A r1 \in EndReasons, r2 \in EndReasons :
           LET first  == endQuiz(currentQuiz, r1)
               second == endQuiz(first.quiz, r2)
           IN  /\ first.quiz = NoQuiz
               /\ first.fired = IF currentQuiz # NoQuiz
                                THEN << <<"onQuizEnd", r1>> >> ELSE <<>>
               /\ second.quiz = first.quiz
               /\ second.fired = <<>>

\* A quiz_end command ended an active quiz.
C6_Witness ==
    \E t \in EndQuizTasks :
        /\ tasks[t].pre # NoQuiz
        /\ tasks[t].pc = "done"
        /\ currentQuiz = NoQuiz

(***************************************************************************)
(* The matcher on its own: a quiz is started with the answer `correct`,    *)
(* the text `candidate` arrives in its group, and `outcome` is the branch  *)
(* checkAnswer takes with the reaction it sends.  The texts are all words  *)
(* up to MaxLen characters over MatchAlphabet, alone or after a common     *)
(* run of padding that makes them longer than 10 and than 40 characters.   *)
(***************************************************************************)
MaxLen   == 3       \* characters of a generated word
ShortPad == 8       \* padding that brings a word to about 10 characters
LongPad  == 40      \* padding that brings a word beyond 40 characters

MatchAlphabet == {"a", "B", " "}

Words == UNION {[1..n -> MatchAlphabet] : n \in 0..MaxLen}

Pad(n) == [i \in 1..n |-> "c"]

\* <<padding of the candidate, padding of the correct answer>>
PadPairs == {<<0, 0>>, <<ShortPad, ShortPad>>, <<ShortPad, ShortPad - 1>>}

\* The words that follow the long padding: the longest ones, without white space.
LongWords == {w \in Words : Len(w) >= MaxLen - 1 /\ \A i \in 1..Len(w) : w[i] \notin WhiteSpace}

MatchInit ==
    /\ EngineInit
    /\ options = [onIgnoredGroupMessage |-> TRUE]
    /\ userJid = BotDevice
    /\ lidMapping = [present |-> FALSE, map |-> [j \in {} |-> NoPn]]
    /\ env = [serial |-> TRUE, batch |-> 1, scripted |-> TRUE, script |-> <<>>,
              failures |-> FALSE,
              chats |-> {G1}, questions |-> {Question1},
              answers |-> {}, replyIds |-> {NoId}, templates |-> {}]
    /\ \/ \E pads \in PadPairs, w1 \in Words, w2 \in Words :
              /\ candidate = Pad(pads[1]) \o w1
              /\ correct = Pad(pads[2]) \o w2
       \/ \E w1 \in LongWords, w2 \in LongWords :
              /\ candidate = Pad(LongPad) \o w1
              /\ correct = Pad(LongPad - 2) \o w2
    /\ outcome = NoOutcome

\* startQuiz(G1, question, correct) has succeeded; checkAnswer(G1, candidate, key).
Classify ==
    /\ outcome = NoOutcome
    /\ LET quiz == NewQuiz(G1, Question1, correct, NoId, now)
           call == checkAnswer(quiz, G1, candidate,
                               [id |-> MsgIds[1], remoteJid |-> G1,
                                remoteJidAlt |-> <<>>, fromMe |-> FALSE])
       IN  outcome' = [branch |-> call.branch,
                       reaction |-> IF call.pc = "sendReact"
                                    THEN ReactionFor(call.branch) ELSE "-"]
    /\ UNCHANGED <<engineVars, clientVars, serverVars, env, process, candidate, correct>>

MatchNext == Classify

MatchSpec == MatchInit /\ [][MatchNext]_vars

(***************************************************************************)
(* C7: for every candidate and correct answer over a bounded alphabet and  *)
(* length, the outcome checkAnswer acts on equals the reference classify:  *)
(* after lower-casing and trimming both, exact if equal; else partial if   *)
(* either contains the other; else close if the Levenshtein distance d     *)
(* satisfies d <= 2 when the candidate's length L <= 10, or                *)
(* d <= max(3, floor(L/10)) when L > 10; else none.                        *)
(***************************************************************************)
ReactionOfTier(tier) ==
    CASE tier = "exact"   -> CorrectEmoji
      [] tier = "partial" -> PartialEmoji
      [] tier = "close"   -> CloseEmoji
      [] tier = "none"    -> "-"

C8_OneCharOffIsClose ==
    \A t \in CheckAnswerTasks :
        LET k == tasks[t]
        IN  ( /\ OnSessionChat(k)
              /\ k.pre.correctAnswer = RefNormalize(TxtParis)
              /\ k.args.messageContent \in {TxtPariss, TxtPari}
              /\ k.pc = "done"
              /\ k.result = "ok" ) =>
                /\ k.branch = "close"
                /\ k.trace = << React(k, CloseEmoji) >>

(***************************************************************************)
(* C9: in the documented sequence startQuiz(G, 'What is 2 + 2?', '4'),     *)
(* checkAnswer(G, '4'), checkAnswer(G, 'The answer is 4'),                 *)
(* checkAnswer(G, 'Four'), the three checkAnswer calls produce the exact   *)
(* outcome (correct-reaction and 'Correct!' message), the                  *)
(* partial-reaction, and the close-reaction.                               *)
(***************************************************************************)
C9_DocumentedSequence ==
    env.scripted =>
        \A t \in CheckAnswerTasks :
            LET k == tasks[t]
                c == k.args.messageContent
            IN  (k.pc = "done" /\ k.result = "ok") =>
                  /\ c = Txt4 =>
                        /\ Len(k.trace) >= 2
                        /\ k.trace[1] = React(k, CorrectEmoji)
                        /\ k.trace[2] = <<"sendMessage", k.args.chatId, CorrectText>>
                  /\ c = TxtTheAnswerIs4 => k.trace = << React(k, PartialEmoji) >>
                  /\ c = TxtFour => k.trace = << React(k, CloseEmoji) >>

(***************************************************************************)
(* C10: for every inbound message that reaches the router (content         *)
(* extracted, not from the bot itself, not a status broadcast), exactly    *)
(* one of the two handlers is invoked, never both and never neither: the   *)
(* agent-facing handler if the message is private or is a group message    *)
(* that mentions the bot, and the quiz ignored-message handler otherwise.  *)
(***************************************************************************)
\* Some entry of the mention list has the canonical form of the bot's address.
RefMentioned(msg) ==
    \E j \in 1..Len(MentionsOf(msg)) :
        resolveAndSanitizePhoneNumber(MentionsOf(msg)[j])
            = resolveAndSanitizePhoneNumber(userJid)

\* The invocations of the handler `handler` for the message with this id.
Invocations(trace, handler, id) ==
    {i \in EventsOf(trace, handler) :
        IF handler = "onMessage" THEN trace[i][2].id = id ELSE trace[i][2].key.id = id}

C10_ExactlyOneHandler ==
    \A t \in UpsertTasks :
        LET k == tasks[t]
            msgs == k.args.messages
        IN  k.args.type = "notify" =>
              \A i \in 1..Len(msgs) :
                  LET msg     == msgs[i]
                      agent   == Invocations(k.trace, "onMessage", msg.key.id)
                      ignored == Invocations(k.trace, "onIgnoredGroupMessage", msg.key.id)
                  IN  ~Skipped(msg) =>
                        IF i < k.loc.i
                        THEN IF ~IsGroup(msg) \/ RefMentioned(msg)
                             THEN Cardinality(agent) = 1 /\ ignored = {}
                             ELSE Cardinality(ignored) = 1 /\ agent = {}
                        ELSE agent = {} /\ ignored = {}

\* A batch of two group messages was routed: one that mentions the bot by an
\* address the directory resolves, one that mentions nobody.
C10_Witness ==
    \E t \in UpsertTasks :
        LET k == tasks[t]
        IN  /\ k.pc = "done"
            /\ Len(k.args.messages) = 2
            /\ EventsOf(k.trace, "onIgnoredGroupMessage") # {}
            /\ \E i \in EventsOf(k.trace, "onMessage") : k.trace[i][2].isGroup
            /\ EventsOf(k.trace, "getPNForLID") # {}

(***************************************************************************)
(* The WhatsApp client alone: group messages arrive one at a time, each    *)
(* with a mention list, for every form of the bot's address and of the     *)
(* directory.  The actions are the client's handler of the bridge.         *)
(***************************************************************************)
MaxMentions == 2    \* entries of a mention list

Numbers == {<<"5">>, <<"5", "0">>, <<"7">>}
Devices == {<<"1">>, <<"2", "3">>}

PlainAddress(n)     == n \o <<PnServer>>
DeviceAddress(n, d) == n \o <<":">> \o d \o <<PnServer>>

\* The addresses of the bot: plain, with a device segment, and linked-identity.
BotAddresses ==
    {PlainAddress(<<"5">>), DeviceAddress(<<"5">>, <<"1">>),
     DeviceAddress(<<"5", "0">>, <<"2", "3">>), BotLid}

\* The addresses a message can mention.
MentionPool ==
    {PlainAddress(<<"5">>), DeviceAddress(<<"5">>, <<"2", "3">>),
     PlainAddress(<<"5", "0">>), BotLid, OtherPn}

MentionListsUpTo(n) == UNION {[1..m -> MentionPool] : m \in 0..n}

\* The directory: absent, empty, or mapping linked identities to phone
\* addresses (with or without a device segment).
Directories ==
    {[present |-> FALSE, map |-> [j \in {} |-> NoPn]],
     [present |-> TRUE,  map |-> [j \in {} |-> NoPn]],
     [present |-> TRUE,  map |-> [j \in {BotLid} |-> BotPn]],
     [present |-> TRUE,  map |-> [j \in {BotLid} |-> BotDevice]]}

MentionInputs ==
    [serial |-> TRUE, batch |-> 1, scripted |-> FALSE, script |-> <<>>, failures |-> TRUE,
     chats |-> {}, questions |-> {}, answers |-> {}, replyIds |-> {},
     templates |-> {Template(G1, FALSE, Body("extendedText", Txt4, m)) :
                        m \in MentionListsUpTo(MaxMentions)}]

MentionInit ==
    /\ EngineInit
    /\ options = [onIgnoredGroupMessage |-> TRUE]
    /\ userJid \in BotAddresses
    /\ lidMapping \in Directories
    /\ env = MentionInputs
    /\ NoMatch

MentionNext ==
    \/ \E t \in {u \in TaskIds : CanAccept(u)}, type \in {"notify", "append"},
          messages \in Batches(env) :
          Upsert(t, type, messages)
    \/ \E t \in TaskIds, u \in TaskIds : UpsertResume(t, u)
    \/ \E t \in TaskIds : Return(t)

MentionSpec == MentionInit /\ [][MentionNext]_vars

\* The mention checks that have returned: the handler of a single group
\* message is done.
MentionChecksDone ==
    {t \in UpsertTasks : /\ tasks[t].pc = "done"
                         /\ tasks[t].args.type = "notify"
                         /\ Len(tasks[t].args.messages) = 1
                         /\ IsGroup(tasks[t].args.messages[1])
                         /\ ~Skipped(tasks[t].args.messages[1])}

\* The arguments of the events of one kind in a trace, in order.
RECURSIVE ArgsOf(_, _)
ArgsOf(trace, kind) ==
    IF trace = <<>> THEN <<>>
    ELSE IF Head(trace)[1] = kind
         THEN <<Head(trace)[2]>> \o ArgsOf(Tail(trace), kind)
         ELSE ArgsOf(Tail(trace), kind)

\* What isUserMentioned returned, read off the handler it led to.
ReturnedTrue(k)  == EventsOf(k.trace, "onMessage") # {}
ReturnedFalse(k) == EventsOf(k.trace, "onIgnoredGroupMessage") # {}

\* Reference: the canonical form of an address.  A linked identity the
\* directory knows stands for the phone address it maps to; a phone address
\* stands for the digits before its device segment and its server.
RefIsLid(jid) == jid # <<>> /\ jid[Len(jid)] = "@lid"

RefMapped(jid) ==
    RefIsLid(jid) /\ lidMapping.present /\ jid \in DOMAIN lidMapping.map

RefDirectory(jid) == IF RefMapped(jid) THEN lidMapping.map[jid] ELSE jid

RefLeadingDigits(jid) ==
    LET stops == {p \in 1..Len(jid) : jid[p] \notin Digits}
    IN  IF stops = {} THEN jid
        ELSE SubSeq(jid, 1, (CHOOSE p \in stops : \A q \in stops : p <= q) - 1)

RefCanonical(jid) ==
    LET a == RefDirectory(jid)
    IN  IF a # <<>> /\ a[Len(a)] = "@s.whatsapp.net" THEN RefLeadingDigits(a) ELSE a

RefDigitsOnly(s) == s # <<>> /\ \A p \in 1..Len(s) : s[p] \in Digits

\* The first entry of the list whose canonical form is the bot's, or 0.
RefFirstMatch(mentions) ==
    LET hits == {j \in 1..Len(mentions) :
                    RefCanonical(mentions[j]) = RefCanonical(userJid)}
    IN  IF hits = {} THEN 0 ELSE CHOOSE j \in hits : \A h \in hits : j <= h

(***************************************************************************)
(* C11 (as claimed): isMentioned called with an empty mention list returns *)
(* false without performing any address-resolution call, for every bot     *)
(* address (including a bot address in linked-identity form).              *)
(***************************************************************************)
C11_EmptyListNoResolution ==
    \A t \in MentionChecksDone :
        LET k == tasks[t]
        IN  MentionsOf(k.args.messages[1]) = <<>> =>
              /\ ReturnedFalse(k) /\ ~ReturnedTrue(k)
              /\ ArgsOf(k.trace, "resolve") = <<>>
              /\ ArgsOf(k.trace, "getPNForLID") = <<>>

(***************************************************************************)
(* C11 (amended): isMentioned called with an empty mention list returns    *)
(* false after resolving the bot address once and nothing else: one        *)
(* resolution call, on the bot address, which makes one directory lookup   *)
(* when the bot address is in linked-identity form and a directory is      *)
(* present, and none otherwise.                                            *)
(***************************************************************************)
C11_EmptyListResolvesBotOnly ==
    \A t \in MentionChecksDone :
        LET k == tasks[t]
        IN  MentionsOf(k.args.messages[1]) = <<>> =>
              /\ ReturnedFalse(k) /\ ~ReturnedTrue(k)
              /\ ArgsOf(k.trace, "resolve") = <<userJid>>
              /\ ArgsOf(k.trace, "getPNForLID")
                    = IF RefIsLid(userJid) /\ lidMapping.present
                      THEN <<userJid>> ELSE <<>>

\* A message that mentions nobody was routed while the bot's address is a
\* linked identity and a directory is present.
C11_Witness ==
    \E t \in MentionChecksDone :
        /\ MentionsOf(tasks[t].args.messages[1]) = <<>>
        /\ RefIsLid(userJid)
        /\ lidMapping.present
        /\ ReturnedFalse(tasks[t])

(***************************************************************************)
(* C12: isMentioned(mentionList, botAddress) returns true iff some entry's *)
(* canonical form equals the bot's canonical form; it resolves the bot     *)
(* address exactly once, resolves entries in list order, and resolves no   *)
(* entry after the first one that matches.                                 *)
(***************************************************************************)
C12_MentionedIffCanonicalMatch ==
    \A t \in MentionChecksDone :
        LET k        == tasks[t]
            mentions == MentionsOf(k.args.messages[1])
            first    == RefFirstMatch(mentions)
            last     == IF first = 0 THEN Len(mentions) ELSE first
        IN  /\ ReturnedTrue(k) <=> first # 0
            /\ ReturnedFalse(k) <=> first = 0
            /\ ArgsOf(k.trace, "resolve") = <<userJid>> \o SubSeq(mentions, 1, last)

\* The first of two entries matched the bot through the directory, and the
\* second entry was never resolved.
C12_Witness ==
    \E t \in MentionChecksDone :
        LET k        == tasks[t]
            mentions == MentionsOf(k.args.messages[1])
        IN  /\ Len(mentions) = 2
            /\ mentions[1] # userJid
            /\ RefFirstMatch(mentions) = 1
            /\ RefMapped(userJid)
            /\ ReturnedTrue(k)
            /\ ArgsOf(k.trace, "resolve") = <<userJid, mentions[1]>>

(***************************************************************************)
(* C13: for every phone number n and device id d, the device-suffixed      *)
(* address n:d@s.whatsapp.net and the plain address n@s.whatsapp.net       *)
(* resolve to the same canonical form, so a mention of one matches a bot   *)
(* identity given as the other.                                            *)
(***************************************************************************)
\* One address is the plain form and the other a device-suffixed form of the
\* same number.
PlainAndDevice(a, b) ==
    \E n \in Numbers, d \in Devices :
        {a, b} = {PlainAddress(n), DeviceAddress(n, d)}

C13_DeviceSuffixIgnored ==
    /\ \A t \in MentionChecksDone :
        LET k        == tasks[t]
            mentions == MentionsOf(k.args.messages[1])
        IN  (\E j \in 1..Len(mentions) : PlainAndDevice(mentions[j], userJid))
                => ReturnedTrue(k)
    /\ \A t \in UpsertTasks :
        LET k == tasks[t]
        IN  k.pc = "resolveMention" =>
              \A n \in Numbers, d \in Devices :
                  userJid \in {PlainAddress(n), DeviceAddress(n, d)} => k.loc.userPn = n

\* The bot is known by its plain address and the only mention is its
\* device-suffixed address with a two-digit device; and the other way round.
C13_Witness ==
    \E t \in MentionChecksDone :
        LET k        == tasks[t]
            mentions == MentionsOf(k.args.messages[1])
        IN  /\ userJid = PlainAddress(<<"5">>)
            /\ mentions = << DeviceAddress(<<"5">>, <<"2", "3">>) >>
            /\ ReturnedTrue(k)

C13_WitnessDeviceBot ==
    \E t \in MentionChecksDone :
        LET k        == tasks[t]
            mentions == MentionsOf(k.args.messages[1])
        IN  /\ userJid = DeviceAddress(<<"5", "0">>, <<"2", "3">>)
            /\ mentions = << OtherPn, PlainAddress(<<"5", "0">>) >>
            /\ ReturnedTrue(k)

CommandTasks == {t \in TaskIds : tasks[t].op \in {"startQuiz", "endQuiz", "getQuiz"}}

\* The direct responses a command has sent on the connection that issued it.
Responses(k) == ArgsOf(k.trace, "ws.send")

C15_OneDirectResponse ==
    \A t \in CommandTasks :
        LET k == tasks[t]
        IN  IF k.pc # "done"
            THEN Responses(k) = <<>>
            ELSE /\ Len(Responses(k)) = 1
                 /\ LET r == Responses(k)[1]
                    IN  /\ k.op = "startQuiz" =>
                              IF k.result = "ok"
                              THEN /\ r = [type |-> "quiz_started", success |-> TRUE]
                                   /\ EventsOf(k.trace, "onQuizStart") # {}
                              ELSE /\ r = [type |-> "error", error |-> k.result]
                                   /\ k.result \in {AlreadyActiveError, TransportError}
                                   /\ EventsOf(k.trace, "onQuizStart") = {}
                        /\ k.op = "endQuiz" =>
                              r = [type |-> "quiz_ended", reason |-> "cancelled"]
                        /\ k.op = "getQuiz" =>
                              /\ r.type = "quiz_status"
                              /\ DOMAIN r = {"type", "active", "quiz"}
                              /\ r.active <=> r.quiz # NoQuiz
                              /\ r.active <=> k.pre # NoQuiz
                              /\ r.quiz = k.pre
                              /\ currentQuiz = k.pre

\* A status query answered while a quiz is active.
C15_Witness ==
    \E t \in CommandTasks :
        /\ tasks[t].op = "getQuiz"
        /\ tasks[t].pc = "done"
        /\ tasks[t].pre # NoQuiz
        /\ Responses(tasks[t])[1].active

(***************************************************************************)
(* C16: a transport failure is never retried or suppressed and leaves the  *)
(* quiz state as it was before the failing send: if the question send in   *)
(* startQuiz fails, the engine stays Idle, no start notification fires and *)
(* the issuing connection gets an error event; if the correct-reaction or  *)
(* the confirmation send fails during an exact match, the session stays    *)
(* Active and no end notification fires.                                   *)
(***************************************************************************)
\* The sends a call has completed, in order.
IsSend(e) == e[1] \in {"sendReact", "sendMessage"}
Sends(trace) == SelectSeq(trace, IsSend)

C16_FailedSendKeepsState ==
    /\ \A t \in StartQuizTasks :
        LET k == tasks[t]
        IN  (k.pc = "done" /\ k.result = TransportError) =>
              /\ k.pre = NoQuiz
              /\ currentQuiz = NoQuiz
              /\ k.trace = << WsSend([type |-> "error", error |-> TransportError]) >>
    /\ \A t \in CheckAnswerTasks :
        LET k == tasks[t]
        IN  (k.pc = "done" /\ k.branch = "exact" /\ k.result # "ok") =>
              /\ k.result = TransportError
              /\ k.pre # NoQuiz
              /\ currentQuiz = k.pre
              /\ EventsOf(k.trace, "onQuizEnd") = {}
              /\ Sends(k.trace) \in {<<>>, << React(k, CorrectEmoji) >>}

\* The correct-reaction was sent and the confirmation message failed.
C16_Witness ==
    \E t \in CheckAnswerTasks :
        LET k == tasks[t]
        IN  /\ k.pc = "done"
            /\ k.branch = "exact"
            /\ k.result = TransportError
            /\ Sends(k.trace) = << React(k, CorrectEmoji) >>
            /\ currentQuiz = k.pre
            /\ currentQuiz # NoQuiz

(***************************************************************************)
(* C17: no failure is fatal or escapes its message: when a reaction or     *)
(* message send fails while checkAnswer handles an ignored group message,  *)
(* the failure reaches a caller that handles it (it is not left as an      *)
(* unhandled rejected promise), and later inbound messages and commands    *)
(* are still processed.                                                    *)
(***************************************************************************)
C17_FailureHandledAndLocal ==
    /\ \A t \in CheckAnswerTasks :
          tasks[t].result = TransportError =>
              EventsOf(tasks[t].trace, "unhandledRejection") = {}
    /\ Running

(***************************************************************************)
(* C18: two startQuiz calls, the second issued while the first is          *)
(* suspended in sending its question, both observe Idle and both succeed:  *)
(* two questions are sent, two start notifications fire with no end        *)
(* notification between them, and the call that commits last overwrites    *)
(* the session created by the other.  The precondition check in startQuiz  *)
(* is the only guard.                                                      *)
(***************************************************************************)
\* The startQuiz calls suspended in the send of their question.
SuspendedStarts ==
    {t \in StartQuizTasks : tasks[t].pc = "sendMessage"}

\* The session a startQuiz call creates when it commits now.
SessionOf(k) ==
    NewQuiz(k.args.chatId, k.args.question, k.args.answer, k.args.replyToMessageId, now)

C18_OverlappingStartsBothCommit ==
    /\ [](\A t \in SuspendedStarts : tasks[t].pre = NoQuiz)
    /\ [][\A t \in TaskIds :
            \* a call is issued: only the session decides, not the calls in flight
            /\ (tasks[t].pc = "free" /\ tasks'[t].op = "startQuiz") =>
                  IF currentQuiz = NoQuiz
                  THEN tasks'[t].pc = "sendMessage" /\ tasks'[t].trace = <<>>
                  ELSE tasks'[t].pc = "done" /\ tasks'[t].result = AlreadyActiveError
            \* a suspended call whose send succeeded commits, whatever the session is
            /\ (t \in SuspendedStarts /\ tasks'[t].pc = "done" /\ tasks'[t].result = "ok") =>
                  /\ currentQuiz' = SessionOf(tasks[t])
                  /\ Sends(tasks'[t].trace)
                        = << <<"sendMessage", tasks[t].args.chatId,
                               QuizMessage(tasks[t].args.question)>> >>
                  /\ ArgsOf(tasks'[t].trace, "onQuizStart") = << SessionOf(tasks[t]) >>
                  /\ EventsOf(tasks'[t].trace, "onQuizEnd") = {}
                  /\ \A u \in TaskIds \ {t} : tasks'[u] = tasks[u]
       ]_vars

\* Two calls were suspended together and both have committed: two start
\* notifications with different sessions, and the session is the later one.
C18_Witness ==
    \E t, u \in StartQuizTasks :
        LET first  == ArgsOf(tasks[t].trace, "onQuizStart")
            second == ArgsOf(tasks[u].trace, "onQuizStart")
        IN  /\ t # u
            /\ tasks[t].pc = "done" /\ tasks[t].result = "ok" /\ tasks[t].pre = NoQuiz
            /\ tasks[u].pc = "done" /\ tasks[u].result = "ok" /\ tasks[u].pre = NoQuiz
            /\ Len(first) = 1 /\ Len(second) = 1
            /\ first[1].startTime < second[1].startTime
            /\ currentQuiz = second[1]

(***************************************************************************)
(* C19: inbound message handlers run one at a time: once handling of a     *)
(* message has begun (mention check, routing and, on the quiz path, the    *)
(* answer check with its sends), handling of the next message does not     *)
(* begin until it has completed; the only interleaving that can occur is   *)
(* at the address-resolution suspension points of the mention check.       *)
(***************************************************************************)
\* The answer check of a message is suspended in one of its sends.
InAnswerCheck(t) ==
    tasks[t].op = "checkAnswer" /\ tasks[t].pc \in {"sendReact", "sendMessage"}

\* The handler is in the mention check of a message.
InMentionCheck(t) ==
    tasks[t].op = "upsert" /\ tasks[t].pc \in {"resolveUser", "resolveMention"}

C19_OneMessageAtATime ==
    \A t \in TaskIds :
        InAnswerCheck(t) =>
            \A u \in TaskIds \ {t} : ~InMentionCheck(u) /\ ~InAnswerCheck(u)

(***************************************************************************)
(* Ownership of the session.  A caller that was handed a session can write *)
(* to what it holds: the listener of the start notification, and the       *)
(* issuer of getQuiz.  Whether the write reaches the engine depends on     *)
(* what was handed over: the engine's own object, or a copy of it.         *)
(***************************************************************************)
\* kotaete.ts line 74 passes this.currentQuiz itself to onQuizStart; lines
\* 131-133 return a spread copy from getQuiz.
HandedOver(op) == IF op = "startQuiz" THEN "reference" ELSE "copy"

\* The writes a caller makes to a session it holds.
CallerWrites == {[field |-> "correctAnswer", value |-> Txt5],
                 [field |-> "chatId", value |-> G2]}

\* The calls whose caller holds a session of the engine: a start that
\* succeeded, and a status query answered while a quiz was active.
HoldsSession(t) ==
    /\ IsDone(t)
    /\ \/ tasks[t].op = "startQuiz" /\ tasks[t].result = "ok"
       \/ tasks[t].op = "getQuiz" /\ tasks[t].pre # NoQuiz

\* The caller of call t writes w to the session it was handed.
CallerMutates(t, w) ==
    /\ Running
    /\ HoldsSession(t)
    /\ EventsOf(tasks[t].trace, "callerWrites") = {}
    /\ tasks' = [tasks EXCEPT ![t].trace = Append(@, <<"callerWrites", w>>)]
    /\ currentQuiz' = IF HandedOver(tasks[t].op) = "reference" /\ currentQuiz # NoQuiz
                      THEN [currentQuiz EXCEPT ![w.field] = w.value]
                      ELSE currentQuiz
    /\ UNCHANGED <<now, clientVars, serverVars, env, process, matchVars>>

OwnerInputs ==
    [serial |-> TRUE, batch |-> 1, scripted |-> FALSE, script |-> <<>>, failures |-> TRUE,
     chats |-> {G1}, questions |-> {Question1},
     answers |-> {Txt4}, replyIds |-> {NoId},
     templates |-> GroupTexts({G1, G2}, {Txt4, Txt5})]

OwnerInit ==
    /\ EngineInit
    /\ ClientInit
    /\ env = OwnerInputs
    /\ NoMatch

OwnerNext ==
    \/ Next
    \/ \E t \in TaskIds, w \in CallerWrites : CallerMutates(t, w)

\* The bridge, one command or event at a time, with callers that write to the
\* sessions they were handed.
OwnerSpec == OwnerInit /\ [][OwnerNext]_vars

(***************************************************************************)
(* C20: the engine exclusively owns the current session: every value       *)
(* handed to a caller (the result of getQuiz and the session passed to the *)
(* start notification) is a copy, so no mutation a caller makes to a value *)
(* it received changes the engine's session or a later getQuiz result.     *)
(***************************************************************************)
C20_CallersHoldCopies ==
    \A t \in TaskIds :
        LET k == tasks[t]
        IN  (HoldsSession(t) /\ EventsOf(k.trace, "callerWrites") # {}) =>
              /\ k.op = "startQuiz" =>
                    /\ currentQuiz = ArgsOf(k.trace, "onQuizStart")[1]
                    /\ getQuiz(currentQuiz) = ArgsOf(k.trace, "onQuizStart")[1]
              /\ k.op = "getQuiz" =>
                    /\ currentQuiz = k.pre
                    /\ getQuiz(currentQuiz) = Responses(k)[1].quiz

(***************************************************************************)
(* C21: for each quiz session, the correct-reaction and the 'Correct!'     *)
(* confirmation message are sent at most once, under every interleaving of *)
(* checkAnswer calls: when two messages with the exact answer arrive for   *)
(* the same session, only one of them is confirmed.                        *)
(***************************************************************************)
\* The answer checks that have sent the correct-reaction or the confirmation
\* message for session q.
ConfirmationsOf(q) ==
    {t \in CheckAnswerTasks :
        /\ tasks[t].pre = q
        /\ \E i \in 1..Len(tasks[t].trace) :
              \/ tasks[t].trace[i] = React(tasks[t], CorrectEmoji)
              \/ tasks[t].trace[i] = <<"sendMessage", tasks[t].args.chatId, CorrectText>>}

C21_ConfirmedAtMostOnce ==
    \A t \in CheckAnswerTasks :
        tasks[t].pre # NoQuiz => Cardinality(ConfirmationsOf(tasks[t].pre)) <= 1


(***************************************************************************)
(* C22: an end with reason 'answered' ends only the session whose answer   *)
(* was matched: when a checkAnswer call that found an exact match resumes  *)
(* from its sends and ends the current session, that session is the one    *)
(* the call compared the answer with, also when in between that session    *)
(* was cancelled by quiz_end and a new one was started by quiz_start.      *)
(***************************************************************************)
\* Call t finishes in this step and ends the session that is current.
EndsCurrentSession(t) ==
    /\ tasks[t].op = "checkAnswer"
    /\ tasks[t].pc = "sendMessage"
    /\ tasks'[t].pc = "done"
    /\ tasks'[t].result = "ok"
    /\ currentQuiz # NoQuiz
    /\ currentQuiz' = NoQuiz

C22_AnsweredEndsMatchedSession ==
    [][\A t \in TaskIds : EndsCurrentSession(t) => currentQuiz = tasks[t].pre]_vars


(***************************************************************************)
(* The control channel: BridgeServer.handleConnection, setupClient and     *)
(* broadcast (server.ts lines 44-116) with the handleCommand of the quiz   *)
(* bridge (kotaete.ts lines 269-305).  Each command is taken here with the *)
(* send it awaits already settled: ok says how.                            *)
(***************************************************************************)
\* ws.close(): the closing handshake starts, unless the socket is closing or
\* closed already.
Close(s) == IF s.readyState = "OPEN" THEN [s EXCEPT !.readyState = "CLOSING"] ELSE s

\* ws.send(): the message goes out when the socket is open and is dropped
\* otherwise.
Send(s, payload) ==
    IF s.readyState = "OPEN" THEN [s EXCEPT !.received = Append(@, payload)] ELSE s

\* server.ts lines 109-116.
broadcast(socks, cl, payload) ==
    [c \in ConnIds |->
        IF c \in cl /\ socks[c].readyState = "OPEN"
        THEN Send(socks[c], payload) ELSE socks[c]]

\* The listeners createKotaete registers (kotaete.ts lines 247-256): what is
\* broadcast for a notification of the quiz engine.
QuizEvent(e) ==
    IF e[1] = "onQuizStart"
    THEN [type |-> "quiz_started", quiz |-> e[2]]
    ELSE [type |-> "quiz_ended", reason |-> e[2]]

RECURSIVE BroadcastFired(_, _, _)
BroadcastFired(socks, cl, fired) ==
    IF fired = <<>> THEN socks
    ELSE BroadcastFired(broadcast(socks, cl, QuizEvent(Head(fired))), cl, Tail(fired))

\* The handshake that takes every auth message, whatever its token.
AuthAcceptsAnyToken(m, tok) == m.json /\ m.type = "auth"

\* server.ts line 52.
AuthAccepts(m, tok) == m.json /\ m.type = "auth" /\ m.token = tok

\* server.ts lines 69-91, setupClient: the connection joins the clients and
\* gets the listener that handles commands.
setupClient(s) == [s EXCEPT !.listener = "command"]

\* server.ts lines 44-66: a connection is made.
handleConnection(c) ==
    /\ Running
    /\ sockets[c].readyState = "NONE"
    /\ \A d \in ConnIds : d < c => sockets[d].readyState # "NONE"
    /\ IF token # NoToken
       THEN /\ sockets' = [sockets EXCEPT ![c] =
                  [NoSocket EXCEPT !.readyState = "OPEN", !.listener = "auth",
                                   !.timeout = TRUE]]
            /\ clients' = clients
       ELSE /\ sockets' = [sockets EXCEPT ![c] =
                  setupClient([NoSocket EXCEPT !.readyState = "OPEN"])]
            /\ clients' = clients \cup {c}
    /\ UNCHANGED <<engineVars, clientVars, env, process, token, matchVars>>

\* server.ts line 47: the auth timer fires.
AuthTimeout(c) ==
    /\ Running
    /\ sockets[c].timeout
    /\ sockets' = [sockets EXCEPT ![c] = Close([@ EXCEPT !.timeout = FALSE])]
    /\ UNCHANGED <<engineVars, clientVars, env, process, token, clients, matchVars>>

\* server.ts lines 48-61: the first message of a connection that has to
\* authenticate.  The listener is registered with once, so it is gone
\* afterwards.
OnceMessage(c, m) ==
    /\ Running
    /\ sockets[c].listener = "auth"
    /\ sockets[c].readyState \in {"OPEN", "CLOSING"}
    /\ LET s == [sockets[c] EXCEPT !.timeout = FALSE, !.listener = "none", !.first = m]
       IN  IF AuthAccepts(m, token)
           THEN /\ sockets' = [sockets EXCEPT ![c] = setupClient(s)]
                /\ clients' = clients \cup {c}
           ELSE /\ sockets' = [sockets EXCEPT ![c] = Close(s)]
                /\ clients' = clients
    /\ UNCHANGED <<engineVars, clientVars, env, process, token, matchVars>>

\* handleCommand (kotaete.ts lines 269-305, server.ts lines 94-101) for the
\* command m of connection c: the session and the connections afterwards.
handleCommand(c, m, ok, chatId, question, answer) ==
    LET reply(socks, payload) == [socks EXCEPT ![c] = Send(@, payload)]
        seen == [sockets EXCEPT ![c].handled = m.type]
    IN  CASE m.type = "quiz_start" ->
               IF StartQuizRejects(currentQuiz)
               THEN [quiz |-> currentQuiz,
                     socks |-> reply(seen, [type |-> "error", error |-> AlreadyActiveError])]
               ELSE IF ~ok
               THEN [quiz |-> currentQuiz,
                     socks |-> reply(seen, [type |-> "error", error |-> TransportError])]
               ELSE LET quiz == NewQuiz(chatId, question, answer, NoId, now)
                    IN  [quiz |-> quiz,
                         socks |-> reply(BroadcastFired(seen, clients,
                                             << <<"onQuizStart", quiz>> >>),
                                         [type |-> "quiz_started", success |-> TRUE])]
          [] m.type = "quiz_end" ->
               LET r == endQuiz(currentQuiz, "cancelled")
               IN  [quiz |-> r.quiz,
                    socks |-> reply(BroadcastFired(seen, clients, r.fired),
                                    [type |-> "quiz_ended", reason |-> "cancelled"])]
          [] m.type = "quiz_status" ->
               [quiz |-> currentQuiz,
                socks |-> reply(seen, [type |-> "quiz_status",
                                       active |-> isQuizActive(currentQuiz),
                                       quiz |-> getQuiz(currentQuiz)])]
          [] m.type = "send" ->
               [quiz |-> currentQuiz,
                socks |-> IF ok THEN reply(seen, [type |-> "sent", to |-> chatId])
                          ELSE reply(seen, [type |-> "error", error |-> TransportError])]
          [] OTHER -> [quiz |-> currentQuiz, socks |-> sockets]

\* The messages sent and not yet read.
RECURSIVE Unread(_, _)
Unread(socks, cs) ==
    IF cs = {} THEN 0
    ELSE LET c == CHOOSE d \in cs : TRUE
         IN  Len(socks[c].received) + Unread(socks, cs \ {c})

\* The clients have room for what is sent to them.
Room(socks) == Unread(socks, ConnIds) <= MaxInbox

\* server.ts lines 72-80: a message of a connection set up as a client.
OnMessage(c, m, ok) ==
    /\ Running
    /\ sockets[c].listener = "command"
    /\ sockets[c].readyState \in {"OPEN", "CLOSING"}
    /\ \E chatId \in env.chats, question \in env.questions, answer \in env.answers :
          LET r == IF m.json
                   THEN handleCommand(c, m, ok, chatId, question, answer)
                   ELSE [quiz |-> currentQuiz,
                         socks |-> [sockets EXCEPT ![c] =
                                       Send(@, [type |-> "error", error |-> "SyntaxError"])]]
          IN  /\ Room(r.socks)
              /\ currentQuiz' = r.quiz
              /\ sockets' = r.socks
    /\ UNCHANGED <<now, tasks, clientVars, env, process, token, clients, matchVars>>

\* server.ts lines 82-85: the connection is closed, by the client or because
\* the closing handshake is over.  Only setupClient registers the listener
\* that takes the connection out of the clients.  The server is done with the
\* socket: nothing of it is kept.
OnClose(c) ==
    /\ Running
    /\ sockets[c].readyState \in {"OPEN", "CLOSING"}
    /\ sockets' = [sockets EXCEPT ![c] = [NoSocket EXCEPT !.readyState = "CLOSED"]]
    /\ clients' = IF sockets[c].listener = "command" THEN clients \ {c} ELSE clients
    /\ UNCHANGED <<engineVars, clientVars, env, process, token, matchVars>>

\* The client reads what was sent to it.
ClientReads(c) ==
    /\ Running
    /\ sockets[c].received # <<>>
    /\ sockets' = [sockets EXCEPT ![c].received = <<>>]
    /\ UNCHANGED <<engineVars, clientVars, env, process, token, clients, matchVars>>

\* server.ts line 32: the messaging client reports its status.
OnStatus(status) ==
    /\ Running
    /\ LET socks == broadcast(sockets, clients, [type |-> "status", status |-> status])
       IN  /\ socks # sockets
           /\ Room(socks)
           /\ sockets' = socks
    /\ UNCHANGED <<engineVars, clientVars, env, process, token, clients, matchVars>>

ChannelInputs ==
    [serial |-> TRUE, batch |-> 1, scripted |-> FALSE, script |-> <<>>, failures |-> TRUE,
     chats |-> {G1}, questions |-> {Question1},
     answers |-> {Txt4}, replyIds |-> {NoId}, templates |-> {}]

\* The bridge after start, with or without a token.
ChannelInit ==
    /\ currentQuiz = NoQuiz
    /\ now = 0
    /\ tasks = [t \in TaskIds |-> FreeTask]
    /\ process = "running"
    /\ token \in {NoToken, BridgeToken}
    /\ clients = {}
    /\ sockets = [c \in ConnIds |-> NoSocket]
    /\ options = [onIgnoredGroupMessage |-> TRUE]
    /\ userJid = BotDevice
    /\ lidMapping = [present |-> FALSE, map |-> [j \in {} |-> NoPn]]
    /\ env = ChannelInputs
    /\ NoMatch

ChannelNext ==
    \/ \E c \in ConnIds : handleConnection(c)
    \/ \E c \in ConnIds : AuthTimeout(c)
    \/ \E c \in {d \in ConnIds : sockets[d].listener = "auth"}, m \in ClientMessages :
          OnceMessage(c, m)
    \/ \E c \in {d \in ConnIds : sockets[d].listener = "command"}, m \in ClientMessages,
          ok \in BOOLEAN :
          /\ ok \/ m.type \in {"send", "quiz_start"}
          /\ OnMessage(c, m, ok)
    \/ \E c \in ConnIds : OnClose(c)
    \/ \E c \in ConnIds : ClientReads(c)
    \/ OnStatus("connected")

\* The control channel with its clients, each command handled before the next.
ChannelSpec == ChannelInit /\ [][ChannelNext]_vars


(***************************************************************************)
(* C23: the number of quiz_ended messages a connected control-channel      *)
(* client receives equals the number of sessions that end while it is      *)
(* connected.  In every step a connected client is sent one quiz_ended     *)
(* message when the step ends the session and none when it does not: a     *)
(* quiz_end command while Idle delivers no quiz_ended message, and a       *)
(* quiz_end while Active delivers exactly one to the issuing client.       *)
(***************************************************************************)
Connected(c) ==
    /\ c \in clients
    /\ sockets[c].readyState = "OPEN"

\* What a step sends to connection c.
SentTo(c) ==
    LET old == sockets[c].received
        new == sockets'[c].received
    IN  IF Len(new) >= Len(old) /\ SubSeq(new, 1, Len(old)) = old
        THEN SubSeq(new, Len(old) + 1, Len(new))
        ELSE <<>>

QuizEndedIn(msgs) == Cardinality({i \in 1..Len(msgs) : msgs[i].type = "quiz_ended"})

SessionEnds == currentQuiz # NoQuiz /\ currentQuiz' = NoQuiz

C23_QuizEndedPerSessionEnd ==
    [][\A c \in ConnIds :
          Connected(c) /\ Connected(c)' =>
              QuizEndedIn(SentTo(c)) = IF SessionEnds THEN 1 ELSE 0]_vars

(***************************************************************************)
(* C24: when a bridge token is configured, a connection whose first        *)
(* message was not an auth message with the matching token has had no      *)
(* command handled, has been sent nothing and is not in the client set;    *)
(* and once its first message was anything else, it is closed or closing.  *)
(***************************************************************************)
Authenticated(c) == sockets[c].first = AuthMessage(token)

C24_NothingBeforeAuth ==
    token # NoToken =>
        \A c \in ConnIds :
            ~Authenticated(c) =>
                /\ c \notin clients
                /\ sockets[c].handled = "none"
                /\ sockets[c].received = <<>>
                /\ sockets[c].listener # "command"
                /\ sockets[c].first # NoMessage =>
                       sockets[c].readyState \in {"CLOSING", "CLOSED"}

\* One connection has authenticated, had a command handled and been sent a
\* broadcast; another sent something else first and was closed.
C24_Witness ==
    /\ token # NoToken
    /\ \E c \in ConnIds, d \in ConnIds :
          /\ Authenticated(c)
          /\ c \in clients
          /\ sockets[c].handled \in CommandTypes
          /\ \E i \in 1..Len(sockets[c].received) :
                sockets[c].received[i].type = "status"
          /\ sockets[d].first \in ClientMessages \ {AuthMessage(token)}
          /\ sockets[d].readyState \in {"CLOSING", "CLOSED"}
          /\ d \notin clients

====
